---- MODULE Spec2Model ----
(***************************************************************************)
(* SingleLinkedList<Type> (single-linked-list.h): a sentinel-anchored      *)
(* singly linked list with a cached element count, forward cursors, deep   *)
(* copy by build-then-swap, and free comparison operators.                 *)
(*                                                                         *)
(* The heap is a pool of node cells.  A cell is identified by the object   *)
(* created by one `new Node`; an identity is never handed out twice, so a  *)
(* dangling cursor never aliases a later node.  Every list object owns a   *)
(* sentinel cell head_ (address head_(l)) and a counter size_.  A cursor   *)
(* is a value, the address in its node_: the list keeps no reference to    *)
(* any cursor, so the cursor operations are functions of the memory and    *)
(* of that address.  The member functions are operators from memory to     *)
(* memory, composed as the source composes them; one action is one call    *)
(* of the public interface, made under the preconditions the interface     *)
(* documents.                                                              *)
(***************************************************************************)
EXTENDS Integers, Sequences, FiniteSets, TLC

\* ------------------------------------------------------------------ bounds
MaxNodes == 3        \* node objects that can ever be allocated
MaxLen == 2          \* longest initializer sequence
MaxVal == 2          \* element values are 1..MaxVal

\* --------------------------------------------------------------- addresses
Null == 0                        \* nullptr
NoValue == 0                     \* content of a cell that holds no element
NodeIds == 1..MaxNodes
Values == 1..MaxVal
Lists == {1, 2}                  \* the list objects of the client program
TmpFill == 3                     \* local `linked_list` of the two builders
TmpCopy == 4                     \* local `copy` of operator=
AllLists == Lists \cup {TmpFill, TmpCopy}
head_(l) == 0 - l                 \* address of l.head_
Sentinels == {head_(l) : l \in AllLists}
Addrs == NodeIds \cup Sentinels

VARIABLES
  next,        \* next_node of every cell (sentinels and nodes)
  value,       \* value of every node cell
  size,        \* size_ of every list object
  allocated,   \* node objects ever returned by new
  freed,       \* how many times delete was applied to each node object
  alive,       \* list objects whose lifetime has begun and not ended
  last         \* the last call: its name and what it returned

vars == <<next, value, size, allocated, freed, alive, last>>

\* The memory as one value, so that member functions compose.
Mem == [next |-> next, value |-> value, size |-> size,
        allocated |-> allocated, freed |-> freed]

MemNext == [next |-> next', value |-> value', size |-> size',
            allocated |-> allocated', freed |-> freed']

Live(m) == {n \in m.allocated : m.freed[n] = 0}

\* ------------------------------------------------------------- node cells
\* the object the next `new Node` creates
Fresh(m) == CHOOSE n \in NodeIds \ m.allocated :
              \A k \in NodeIds \ m.allocated : n <= k

\* new Node(val, nxt): Node(const Type &val, Node *next)
NewNode(m, v, nxt) ==
  LET n == Fresh(m) IN
    [m EXCEPT !.allocated = @ \cup {n}, !.value[n] = v, !.next[n] = nxt]

\* delete p: a no-op on nullptr; the cell's content is gone afterwards
DeleteNode(m, n) ==
  IF n = Null THEN m
  ELSE [m EXCEPT !.freed[n] = @ + 1, !.next[n] = Null, !.value[n] = NoValue]

\* ------------------------------------------------------------- cursors
\* Iterator begin(): Iterator(head_.next_node)
begin(m, l) == m.next[head_(l)]

\* Iterator end(): Iterator(), whose node_ is nullptr
end == Null

\* Iterator before_begin(): Iterator(&head_)
before_begin(l) == head_(l)

\* BasicIterator &operator++(): node_ = node_->next_node
Inc(m, it) == m.next[it]

\* reference operator*(): node_->value
Deref(m, it) == m.value[it]

\* for (it = first; it != end(); ++it): the cells visited, at most fuel of them
RECURSIVE Walk(_, _, _)
Walk(m, it, fuel) ==
  IF it = end \/ fuel = 0 THEN <<>>
  ELSE <<it>> \o Walk(m, Inc(m, it), fuel - 1)

\* the cells from begin() to end()
Chain(m, l) == Walk(m, begin(m, l), MaxNodes + 1)

ChainSet(m, l) == {Chain(m, l)[i] : i \in 1..Len(Chain(m, l))}

\* *it for it from begin() to end()
Elems(m, l) == [i \in 1..Len(Chain(m, l)) |-> Deref(m, Chain(m, l)[i])]

GetSize(m, l) == m.size[l]

IsEmpty(m, l) == m.size[l] = 0

\* ------------------------------------------------------------- mutators
\* swap that exchanges the links and leaves the counts
swapLinksOnly(m, a, b) ==
  [m EXCEPT !.next = [@ EXCEPT ![head_(a)] = m.next[head_(b)],
                               ![head_(b)] = m.next[head_(a)]]]

\* void swap(SingleLinkedList &other)
swap(m, a, b) ==
  [m EXCEPT !.next = [@ EXCEPT ![head_(a)] = m.next[head_(b)],
                               ![head_(b)] = m.next[head_(a)]],
            !.size = [@ EXCEPT ![a] = m.size[b], ![b] = m.size[a]]]

\* the while loop of Clear
RECURSIVE ClearLoop(_, _)
ClearLoop(m, l) ==
  IF m.next[head_(l)] = Null THEN m
  ELSE LET current_node == m.next[head_(l)]
           m1 == [m EXCEPT !.next[head_(l)] = m.next[current_node]]
       IN ClearLoop(DeleteNode(m1, current_node), l)

\* Clear that drops the chain without deleting its nodes
ClearLeaks(m, l) == [m EXCEPT !.next[head_(l)] = Null, !.size[l] = 0]

\* void Clear()
Clear(m, l) == [ClearLoop(m, l) EXCEPT !.size[l] = 0]

\* PushFront without ++size_
PushFrontNoCount(m, l, x) ==
  LET node == Fresh(m)
      m1 == NewNode(m, x, m.next[head_(l)])
  IN [m1 EXCEPT !.next[head_(l)] = node]

\* void PushFront(const Type &value)
PushFront(m, l, x) ==
  LET node == Fresh(m)
      m1 == NewNode(m, x, m.next[head_(l)])
  IN [m1 EXCEPT !.next[head_(l)] = node, !.size[l] = @ + 1]

\* InsertAfter whose new node is created with a null successor
InsertAfterDropsTail(m, l, pos, x) ==
  LET node == Fresh(m)
      m1 == NewNode(m, x, Null)
      m2 == [m1 EXCEPT !.next[pos] = node, !.size[l] = @ + 1]
  IN [mem |-> m2, ret |-> m2.next[pos]]

\* Iterator InsertAfter(ConstIterator pos, const Type &value)
InsertAfter(m, l, pos, x) ==
  LET node == Fresh(m)
      m1 == NewNode(m, x, m.next[pos])
      m2 == [m1 EXCEPT !.next[pos] = node, !.size[l] = @ + 1]
  IN [mem |-> m2, ret |-> m2.next[pos]]

\* PopFront that deletes head_.next_node after relinking it
PopFrontDeletesNewFront(m, l) ==
  LET front == m.next[head_(l)]
      m1 == [m EXCEPT !.next[head_(l)] = m.next[front]]
      m2 == DeleteNode(m1, m1.next[head_(l)])
  IN [m2 EXCEPT !.size[l] = @ - 1]

\* void PopFront()
PopFront(m, l) ==
  LET front == m.next[head_(l)]
      m1 == [m EXCEPT !.next[head_(l)] = m.next[front]]
      m2 == DeleteNode(m1, front)
  IN [m2 EXCEPT !.size[l] = @ - 1]

\* EraseAfter that returns Iterator(pos.node_)
EraseAfterReturnsPos(m, l, pos) ==
  LET node_to_delete == m.next[pos]
      m1 == [m EXCEPT !.next[pos] = m.next[node_to_delete]]
      m2 == DeleteNode(m1, node_to_delete)
      m3 == [m2 EXCEPT !.size[l] = @ - 1]
  IN [mem |-> m3, ret |-> pos]

\* Iterator EraseAfter(ConstIterator pos)
EraseAfter(m, l, pos) ==
  LET node_to_delete == m.next[pos]
      m1 == [m EXCEPT !.next[pos] = m.next[node_to_delete]]
      m2 == DeleteNode(m1, node_to_delete)
      m3 == [m2 EXCEPT !.size[l] = @ - 1]
  IN [mem |-> m3, ret |-> m3.next[pos]]

\* ------------------------------------------------------------- builders
\* the loop of FillLinkedList_ without node_ptr = &((*node_ptr)->next_node)
RECURSIVE FillLoopNoAdvance(_, _, _, _, _, _)
FillLoopNoAdvance(m, l, node_ptr, vals, i, failAt) ==
  IF i > Len(vals) THEN [mem |-> m, ok |-> TRUE]
  ELSE IF i = failAt THEN [mem |-> m, ok |-> FALSE]
  ELSE LET node == Fresh(m)
           m1 == NewNode(m, vals[i], Null)
           m2 == [m1 EXCEPT !.next[node_ptr] = node, !.size[l] = @ + 1]
       IN FillLoopNoAdvance(m2, l, node_ptr, vals, i + 1, failAt)

\* FillLinkedList_(linked_list, it_begin, it_end) over the values vals that
\* the range yields; the failAt-th `new Node` throws (0: none does).
\* node_ptr is the cell whose next_node the next allocation is stored in.
RECURSIVE FillLoop(_, _, _, _, _, _)
FillLoop(m, l, node_ptr, vals, i, failAt) ==
  IF i > Len(vals) THEN [mem |-> m, ok |-> TRUE]
  ELSE IF i = failAt THEN [mem |-> m, ok |-> FALSE]
  ELSE LET node == Fresh(m)
           m1 == NewNode(m, vals[i], Null)
           m2 == [m1 EXCEPT !.next[node_ptr] = node, !.size[l] = @ + 1]
       IN FillLoop(m2, l, node, vals, i + 1, failAt)

FillLinkedList_(m, l, vals, failAt) == FillLoop(m, l, head_(l), vals, 1, failAt)

\* SingleLinkedList(std::initializer_list<Type> values) run on the fresh
\* object l; on a throw the local linked_list is destroyed by unwinding.
InitListCtor(m, l, vals, failAt) ==
  LET r == FillLinkedList_(m, TmpFill, vals, failAt) IN
    IF r.ok THEN [mem |-> Clear(swap(r.mem, l, TmpFill), TmpFill), ok |-> TRUE]
    ELSE [mem |-> Clear(r.mem, TmpFill), ok |-> FALSE]

\* a copy constructor that adopts the nodes of other instead of copying them
CopyCtorShallow(m, l, other, failAt) ==
  [mem |-> [m EXCEPT !.next[head_(l)] = m.next[head_(other)],
                     !.size[l] = m.size[other]],
   ok |-> TRUE]

\* SingleLinkedList(const SingleLinkedList &other) run on the fresh object l
CopyCtor(m, l, other, failAt) ==
  LET r == FillLinkedList_(m, TmpFill, Elems(m, other), failAt) IN
    IF r.ok THEN [mem |-> Clear(swap(r.mem, l, TmpFill), TmpFill), ok |-> TRUE]
    ELSE [mem |-> Clear(r.mem, TmpFill), ok |-> FALSE]

\* an assignment that clears the target and fills it in place
CopyAssignInPlace(m, l, rhs, failAt) ==
  IF l = rhs THEN [mem |-> m, ok |-> TRUE]
  ELSE FillLinkedList_(Clear(m, l), l, Elems(m, rhs), failAt)

\* SingleLinkedList &operator=(const SingleLinkedList &rhs)
CopyAssign(m, l, rhs, failAt) ==
  IF l = rhs THEN [mem |-> m, ok |-> TRUE]
  ELSE LET c == CopyCtor(m, TmpCopy, rhs, failAt) IN
         IF c.ok THEN [mem |-> Clear(swap(c.mem, l, TmpCopy), TmpCopy), ok |-> TRUE]
         ELSE [mem |-> c.mem, ok |-> FALSE]

\* ~SingleLinkedList()
Destructor(m, l) == Clear(m, l)

\* ------------------------------------------------------------- comparison
\* std::equal(first1, last1, first2) with last1 = end(): "ub" when first2 is
\* dereferenced at the end of its list
RECURSIVE StdEqual(_, _, _)
StdEqual(m, first1, first2) ==
  IF first1 = Null THEN "true"
  ELSE IF first2 = Null THEN "ub"
  ELSE IF m.value[first1] # m.value[first2] THEN "false"
  ELSE StdEqual(m, m.next[first1], m.next[first2])

\* bool operator==(lhs, rhs)
OpEqual(m, lhs, rhs) == StdEqual(m, m.next[head_(lhs)], m.next[head_(rhs)])

\* what a build can produce for a comparison result
Outcomes(r) == IF r = "ub" THEN {"true", "false", "crash"} ELSE {r}

\* bool operator!=(lhs, rhs): !(lhs == rhs)
Negate(r) == IF r = "true" THEN "false" ELSE IF r = "false" THEN "true" ELSE r

\* ------------------------------------------------------------- the calls
\* the last call: its name, whether it returned normally (no bad_alloc), the
\* cursor it returned, the truth value it returned, and whether it read
\* through the end cursor
NoCall == [op |-> "none", ok |-> TRUE, ret |-> Null, res |-> "none", ub |-> FALSE]

Commit(m) ==
  /\ next' = m.next
  /\ value' = m.value
  /\ size' = m.size
  /\ allocated' = m.allocated
  /\ freed' = m.freed

\* the pool holds the cells a build of n nodes allocates before the
\* failAt-th allocation throws
Room(n, failAt) ==
  Cardinality(NodeIds \ allocated) >= (IF failAt = 0 THEN n ELSE failAt - 1)

\* positions a caller may pass to InsertAfter: before_begin() or a cursor
\* to an element of l
ValidPos(m, l) == {head_(l)} \cup ChainSet(m, l)

SeqsUpTo(n) == UNION {[1..k -> Values] : k \in 0..n}

Init ==
  /\ next = [a \in Addrs |-> Null]
  /\ value = [n \in NodeIds |-> NoValue]
  /\ size = [l \in AllLists |-> 0]
  /\ allocated = {}
  /\ freed = [n \in NodeIds |-> 0]
  /\ alive = [l \in Lists |-> FALSE]
  /\ last = NoCall

\* SingleLinkedList() {}
Construct(l) ==
  /\ ~alive[l]
  /\ alive' = [alive EXCEPT ![l] = TRUE]
  /\ last' = [NoCall EXCEPT !.op = "Construct"]
  /\ UNCHANGED <<next, value, size, allocated, freed>>

ConstructInit(l, vals, failAt) ==
  /\ ~alive[l]
  /\ failAt <= Len(vals)
  /\ Room(Len(vals), failAt)
  /\ LET r == InitListCtor(Mem, l, vals, failAt) IN
       /\ Commit(r.mem)
       /\ alive' = [alive EXCEPT ![l] = r.ok]
       /\ last' = [NoCall EXCEPT !.op = "ConstructInit", !.ok = r.ok]

CopyConstruct(l, other, failAt) ==
  /\ ~alive[l]
  /\ alive[other]
  /\ failAt <= Len(Chain(Mem, other))
  /\ Room(Len(Chain(Mem, other)), failAt)
  /\ LET r == CopyCtor(Mem, l, other, failAt) IN
       /\ Commit(r.mem)
       /\ alive' = [alive EXCEPT ![l] = r.ok]
       /\ last' = [NoCall EXCEPT !.op = "CopyConstruct", !.ok = r.ok]

Assign(l, rhs, failAt) ==
  /\ alive[l]
  /\ alive[rhs]
  /\ failAt <= Len(Chain(Mem, rhs))
  /\ l = rhs => failAt = 0
  /\ Room(IF l = rhs THEN 0 ELSE Len(Chain(Mem, rhs)), failAt)
  /\ LET r == CopyAssign(Mem, l, rhs, failAt) IN
       /\ Commit(r.mem)
       /\ last' = [NoCall EXCEPT !.op = "Assign", !.ok = r.ok]
  /\ UNCHANGED alive

Destroy(l) ==
  /\ alive[l]
  /\ Commit(Destructor(Mem, l))
  /\ alive' = [alive EXCEPT ![l] = FALSE]
  /\ last' = [NoCall EXCEPT !.op = "Destroy"]

CallSwap(a, b) ==
  /\ alive[a]
  /\ alive[b]
  /\ Commit(swap(Mem, a, b))
  /\ last' = [NoCall EXCEPT !.op = "swap"]
  /\ UNCHANGED alive

\* void swap(SingleLinkedList<Type> &lhs, SingleLinkedList<Type> &rhs)
CallFreeSwap(lhs, rhs) ==
  /\ alive[lhs]
  /\ alive[rhs]
  /\ Commit(swap(Mem, lhs, rhs))
  /\ last' = [NoCall EXCEPT !.op = "swap"]
  /\ UNCHANGED alive

CallClear(l) ==
  /\ alive[l]
  /\ Commit(Clear(Mem, l))
  /\ last' = [NoCall EXCEPT !.op = "Clear"]
  /\ UNCHANGED alive

\* PushFront and InsertAfter store nothing before `new Node` has returned: a
\* call whose allocation throws leaves the memory as it was, and the calls
\* below are those whose allocation succeeds.
CallPushFront(l, x) ==
  /\ alive[l]
  /\ Room(1, 0)
  /\ Commit(PushFront(Mem, l, x))
  /\ last' = [NoCall EXCEPT !.op = "PushFront"]
  /\ UNCHANGED alive

CallInsertAfter(l, pos, x) ==
  /\ alive[l]
  /\ pos \in ValidPos(Mem, l)
  /\ Room(1, 0)
  /\ LET r == InsertAfter(Mem, l, pos, x) IN
       /\ Commit(r.mem)
       /\ last' = [NoCall EXCEPT !.op = "InsertAfter", !.ret = r.ret]
  /\ UNCHANGED alive

CallPopFront(l) ==
  /\ alive[l]
  /\ next[head_(l)] # Null
  /\ Commit(PopFront(Mem, l))
  /\ last' = [NoCall EXCEPT !.op = "PopFront"]
  /\ UNCHANGED alive

CallEraseAfter(l, pos) ==
  /\ alive[l]
  /\ pos \in ValidPos(Mem, l)
  /\ next[pos] # Null
  /\ LET r == EraseAfter(Mem, l, pos) IN
       /\ Commit(r.mem)
       /\ last' = [NoCall EXCEPT !.op = "EraseAfter", !.ret = r.ret]
  /\ UNCHANGED alive

CallEqual(lhs, rhs) ==
  /\ alive[lhs]
  /\ alive[rhs]
  /\ \E r \in Outcomes(OpEqual(Mem, lhs, rhs)) :
       last' = [NoCall EXCEPT !.op = "==", !.res = r,
                              !.ub = (OpEqual(Mem, lhs, rhs) = "ub")]
  /\ UNCHANGED <<next, value, size, allocated, freed, alive>>

CallNotEqual(lhs, rhs) ==
  /\ alive[lhs]
  /\ alive[rhs]
  /\ \E r \in Outcomes(OpEqual(Mem, lhs, rhs)) :
       last' = [NoCall EXCEPT !.op = "!=", !.res = Negate(r),
                              !.ub = (OpEqual(Mem, lhs, rhs) = "ub")]
  /\ UNCHANGED <<next, value, size, allocated, freed, alive>>

\* A build that throws at its k-th allocation has read k elements only, so
\* the failing constructions are drawn with the sequence they consumed.
Next ==
  \/ \E l \in Lists : Construct(l)
  \/ \E l \in Lists, vals \in SeqsUpTo(MaxLen) :
       \E failAt \in {0, Len(vals)} : ConstructInit(l, vals, failAt)
  \/ \E l \in Lists, other \in Lists, failAt \in 0..MaxNodes :
       CopyConstruct(l, other, failAt)
  \/ \E l \in Lists, rhs \in Lists, failAt \in 0..MaxNodes : Assign(l, rhs, failAt)
  \/ \E l \in Lists : Destroy(l)
  \/ \E a \in Lists, b \in Lists : CallSwap(a, b)
  \/ \E a \in Lists, b \in Lists : CallFreeSwap(a, b)
  \/ \E l \in Lists : CallClear(l)
  \/ \E l \in Lists, x \in Values : CallPushFront(l, x)
  \/ \E l \in Lists, pos \in Addrs, x \in Values : CallInsertAfter(l, pos, x)
  \/ \E l \in Lists : CallPopFront(l)
  \/ \E l \in Lists, pos \in Addrs : CallEraseAfter(l, pos)

Spec == Init /\ [][Next]_vars

\* the same client, which also compares its lists
NextCompare ==
  \/ \E l \in Lists, vals \in SeqsUpTo(MaxLen) : ConstructInit(l, vals, 0)
  \/ \E l \in Lists : Destroy(l)
  \/ \E a \in Lists, b \in Lists : CallEqual(a, b)
  \/ \E a \in Lists, b \in Lists : CallNotEqual(a, b)

SpecCompare == Init /\ [][NextCompare]_vars


\* ================================================================ claims
\* position of the cell pos in l: 0 for the sentinel, i for the i-th element
PosIndex(m, l, pos) ==
  IF pos = head_(l) THEN 0
  ELSE CHOOSE i \in 1..Len(Chain(m, l)) : Chain(m, l)[i] = pos

NoDuplicates(c) == \A i, j \in 1..Len(c) : c[i] = c[j] => i = j

\* C1: A == B holds exactly when A and B have the same length and pairwise
\* equal elements in order (and A != B exactly otherwise), and the
\* comparison never reads through the end of the shorter list.
C1_EqualityIsLengthSensitive ==
  [][\A a \in Lists, b \in Lists :
       /\ CallEqual(a, b) =>
            /\ last'.res \in {"true", "false"}
            /\ (last'.res = "true") <=> (Elems(Mem, a) = Elems(Mem, b))
            /\ ~last'.ub
       /\ CallNotEqual(a, b) =>
            /\ last'.res \in {"true", "false"}
            /\ (last'.res = "true") <=> (Elems(Mem, a) # Elems(Mem, b))
            /\ ~last'.ub]_vars

\* C2: every list's cached count equals the number of real nodes reachable
\* from its sentinel, the chain is acyclic and ends in the null link, and
\* IsEmpty() holds exactly when the chain has no real node.
C2_CountMatchesChain ==
  \A l \in AllLists :
    LET c == Chain(Mem, l) IN
      /\ Len(c) <= MaxNodes
      /\ \A i \in 1..Len(c) : c[i] \in NodeIds
      /\ NoDuplicates(c)
      /\ GetSize(Mem, l) = Len(c)
      /\ IsEmpty(Mem, l) <=> (Len(c) = 0)

C2_Witness ==
  /\ last.op = "EraseAfter"
  /\ \E l \in Lists : alive[l] /\ Len(Chain(Mem, l)) = 2 /\ size[l] = 2


\* what a step leaves alone: every cursor to a node of S that was valid
\* before the step is valid after it and reads the same value
CursorsStay(S) ==
  \A it \in S \cap Live(Mem) :
    it \in Live(MemNext) /\ Deref(MemNext, it) = Deref(Mem, it)

\* the list o is as it was: same nodes, same values, same count
ListUnchanged(o) ==
  /\ Chain(MemNext, o) = Chain(Mem, o)
  /\ Elems(MemNext, o) = Elems(Mem, o)
  /\ GetSize(MemNext, o) = GetSize(Mem, o)

OthersUnchanged(b) == \A a \in Lists \ {b} : ListUnchanged(a)

C4_AssignIsAllOrNothing ==
  [][last'.op = "Assign" =>
       \A l \in Lists, rhs \in Lists, failAt \in 0..MaxNodes :
         Assign(l, rhs, failAt) =>
           /\ last'.ok <=> (failAt = 0)
           /\ ListUnchanged(rhs)
           /\ last'.ok =>
                /\ Elems(MemNext, l) = Elems(Mem, rhs)
                /\ GetSize(MemNext, l) = GetSize(Mem, rhs)
           /\ ~last'.ok => ListUnchanged(l) /\ Live(MemNext) = Live(Mem)
           /\ l = rhs => last'.ok /\ MemNext = Mem]_vars

C4_Witness ==
  /\ last.op = "Assign"
  /\ ~last.ok
  /\ alive[1] /\ alive[2]
  /\ Len(Chain(Mem, 1)) >= 1
  /\ Len(Chain(Mem, 2)) >= 1
  /\ Elems(Mem, 1) # Elems(Mem, 2)

\* C5: swap(A, B) exchanges the two element sequences and the two counts,
\* allocates and frees nothing, changes no node's value or successor, and a
\* cursor to a node of A still references a live node with the same value,
\* which is now in B's chain.
C5_SwapExchangesContents ==
  [][last'.op = "swap" =>
       \A a \in Lists, b \in Lists :
         (CallSwap(a, b) \/ CallFreeSwap(a, b)) =>
           /\ Elems(MemNext, a) = Elems(Mem, b)
           /\ Elems(MemNext, b) = Elems(Mem, a)
           /\ GetSize(MemNext, a) = GetSize(Mem, b)
           /\ GetSize(MemNext, b) = GetSize(Mem, a)
           /\ Chain(MemNext, a) = Chain(Mem, b)
           /\ Chain(MemNext, b) = Chain(Mem, a)
           /\ allocated' = allocated
           /\ freed' = freed
           /\ value' = value
           /\ \A c \in Addrs \ {head_(a), head_(b)} : next'[c] = next[c]
           /\ CursorsStay(NodeIds)
           /\ \A it \in ChainSet(Mem, a) : it \in ChainSet(MemNext, b)]_vars

C5_Witness ==
  /\ last.op = "swap"
  /\ Chain(Mem, 1) = <<3>>
  /\ Chain(Mem, 2) = <<1, 2>>
  /\ size[1] = 1 /\ size[2] = 2

\* C6: the list built from a sequence S has GetSize() = length(S), yields
\* exactly S from begin() to end(), and its last node's link is null.
C6_ConstructionPreservesSequence ==
  [][last'.op = "ConstructInit" /\ last'.ok =>
       \A l \in Lists, vals \in SeqsUpTo(MaxLen) :
         ConstructInit(l, vals, 0) =>
           LET c == Chain(MemNext, l) IN
             /\ alive'[l]
             /\ Elems(MemNext, l) = vals
             /\ GetSize(MemNext, l) = Len(vals)
             /\ Len(c) = Len(vals)
             /\ Len(c) > 0 => Inc(MemNext, c[Len(c)]) = end]_vars

C6_Witness ==
  /\ last.op = "ConstructInit"
  /\ last.ok
  /\ \E l \in Lists : alive[l] /\ Elems(Mem, l) = <<2, 1>> /\ size[l] = 2

\* C7: InsertAfter(pos, x) yields the previous sequence with x right after
\* pos's node, adds one to the count and returns a cursor to the new node;
\* at before_begin() it leaves the order and size PushFront(x) leaves.
C7_InsertAfterInsertsAtCursor ==
  [][last'.op = "InsertAfter" =>
       \A l \in Lists : \A pos \in ValidPos(Mem, l), x \in Values :
         CallInsertAfter(l, pos, x) =>
           LET old == Elems(Mem, l)
               oldc == Chain(Mem, l)
               k == PosIndex(Mem, l, pos)
               new == last'.ret
           IN /\ Elems(MemNext, l) =
                   SubSeq(old, 1, k) \o <<x>> \o SubSeq(old, k + 1, Len(old))
              /\ Chain(MemNext, l) =
                   SubSeq(oldc, 1, k) \o <<new>> \o SubSeq(oldc, k + 1, Len(oldc))
              /\ GetSize(MemNext, l) = GetSize(Mem, l) + 1
              /\ new \in Live(MemNext) \ allocated
              /\ Deref(MemNext, new) = x
              /\ Inc(MemNext, pos) = new
              /\ pos = before_begin(l) =>
                   /\ Elems(MemNext, l) = Elems(PushFront(Mem, l, x), l)
                   /\ GetSize(MemNext, l) = GetSize(PushFront(Mem, l, x), l)]_vars

C7_Witness ==
  /\ last.op = "InsertAfter"
  /\ last.ok
  /\ \E l \in Lists :
       /\ alive[l]
       /\ Len(Chain(Mem, l)) = 3
       /\ Chain(Mem, l)[2] = last.ret

\* C8: EraseAfter(pos) removes exactly pos's successor, keeps the order of
\* the rest, takes one from the count and returns a cursor to pos's new
\* successor (end when there is none); at before_begin() it leaves the order
\* and size PopFront() leaves.
C8_EraseAfterRemovesSuccessor ==
  [][last'.op = "EraseAfter" =>
       \A l \in Lists : \A pos \in ValidPos(Mem, l) :
         CallEraseAfter(l, pos) =>
           LET old == Elems(Mem, l)
               oldc == Chain(Mem, l)
               k == PosIndex(Mem, l, pos)
           IN /\ Elems(MemNext, l) =
                   SubSeq(old, 1, k) \o SubSeq(old, k + 2, Len(old))
              /\ Chain(MemNext, l) =
                   SubSeq(oldc, 1, k) \o SubSeq(oldc, k + 2, Len(oldc))
              /\ GetSize(MemNext, l) = GetSize(Mem, l) - 1
              /\ Live(MemNext) = Live(Mem) \ {oldc[k + 1]}
              /\ last'.ret = (IF k + 2 <= Len(oldc) THEN oldc[k + 2] ELSE end)
              /\ last'.ret = Inc(MemNext, pos)
              /\ pos = before_begin(l) =>
                   /\ Elems(MemNext, l) = Elems(PopFront(Mem, l), l)
                   /\ GetSize(MemNext, l) = GetSize(PopFront(Mem, l), l)]_vars

C8_Witness ==
  /\ last.op = "EraseAfter"
  /\ last.ret # Null
  /\ \E l \in Lists :
       /\ alive[l]
       /\ Len(Chain(Mem, l)) = 2
       /\ Chain(Mem, l)[2] = last.ret
       /\ Chain(Mem, l)[1] \in NodeIds

\* C9: a cursor to a real node stays valid and reads the same value across
\* every call that does not remove that very node: PushFront, InsertAfter
\* and swap invalidate nothing, PopFront only cursors to the first node,
\* EraseAfter only cursors to pos's successor, Clear, destruction and
\* reassignment only cursors to the nodes of the list they act on.
C9_CursorsOutliveOtherNodes ==
  [][/\ last'.op \in {"PushFront", "InsertAfter", "swap", "Construct",
                      "ConstructInit", "CopyConstruct"} => CursorsStay(NodeIds)
     /\ last'.op = "PopFront" =>
          \A l \in Lists :
            CallPopFront(l) => CursorsStay(NodeIds \ {begin(Mem, l)})
     /\ last'.op = "EraseAfter" =>
          \A l \in Lists : \A pos \in ValidPos(Mem, l) :
            CallEraseAfter(l, pos) => CursorsStay(NodeIds \ {Inc(Mem, pos)})
     /\ last'.op \in {"Clear", "Destroy"} =>
          \A l \in Lists :
            (CallClear(l) \/ Destroy(l)) => CursorsStay(NodeIds \ ChainSet(Mem, l))
     /\ last'.op = "Assign" =>
          \A l \in Lists, rhs \in Lists, failAt \in 0..MaxNodes :
            Assign(l, rhs, failAt) =>
              CursorsStay(NodeIds \ (IF last'.ok /\ l # rhs
                                       THEN ChainSet(Mem, l) ELSE {}))]_vars

C9_Witness ==
  /\ last.op = "PopFront"
  /\ \E l \in Lists : alive[l] /\ Len(Chain(Mem, l)) = 2

\* every live node has exactly one predecessor cell and lies in the chain of
\* exactly one living list; nothing is freed twice; no link dangles; the
\* locals of the builders and the lists not alive hold no node
SingleOwner ==
  /\ \A n \in NodeIds : freed[n] <= 1
  /\ \A n \in NodeIds \ allocated : freed[n] = 0
  /\ \A c \in Addrs : next[c] # Null => next[c] \in Live(Mem)
  /\ \A n \in Live(Mem) :
       /\ Cardinality({c \in Addrs : next[c] = n}) = 1
       /\ Cardinality({l \in Lists : alive[l] /\ n \in ChainSet(Mem, l)}) = 1
  /\ \A l \in AllLists \ Lists : begin(Mem, l) = end
  /\ \A l \in Lists : ~alive[l] => begin(Mem, l) = end

\* Clear and the destructor free every node of the list and leave the
\* sentinel's link null; a builder that fails frees every node it allocated
FreesWhatItOwns ==
  /\ last'.op \in {"Clear", "Destroy"} =>
       \A l \in Lists :
         (CallClear(l) \/ Destroy(l)) =>
           /\ \A n \in ChainSet(Mem, l) : freed'[n] = 1
           /\ Live(MemNext) = Live(Mem) \ ChainSet(Mem, l)
           /\ begin(MemNext, l) = end
  /\ (last'.op \in {"ConstructInit", "CopyConstruct", "Assign"} /\ ~last'.ok) =>
       /\ Live(MemNext) = Live(Mem)
       /\ \A n \in allocated' \ allocated : freed'[n] = 1

\* C10: each live node is reachable from exactly one live list's sentinel
\* and linked once, no node is freed twice, Clear and destruction free every
\* node of the list and null the sentinel's link, and a construction that
\* fails partway frees the nodes it had allocated.
C10_SingleOwnershipNoLeak == []SingleOwner /\ [][FreesWhatItOwns]_vars

C10_Witness ==
  /\ last.op = "CopyConstruct"
  /\ ~last.ok
  /\ allocated = {1, 2, 3}
  /\ freed[3] = 1
  /\ Live(Mem) = {1, 2}

====
